---- MODULE Spec2Model ----
(***************************************************************************)
(* Job orchestration core of the redis consumer: ImageFileConsumer         *)
(* (redis_consumer/consumers/image_consumer.py), Deepcell3DConsumer        *)
(* (redis_consumer/consumers/deepcell3D_consumer.py) and the multiplex     *)
(* route exercised by redis_consumer/consumers/multiplex_consumer_test.py. *)
(*                                                                         *)
(* Python strings that the code lower-cases, splits or compares are        *)
(* sequences of one-character strings, so that str.lower(), str.split(',') *)
(* and str.endswith() are computed, not assumed.                           *)
(***************************************************************************)
EXTENDS Integers, Sequences, FiniteSets, TLC

VARIABLES
    settings,    \* redis_consumer.settings flags read by the consumer
    kind,        \* consumer class every worker of the fleet runs
    fleet,       \* workers the queue delivers the job id to
    source,      \* the image stored under input_file_name, and what the
                 \* models of the serving backend answer for it
    redis,       \* the job's hash in the record store
    pc,          \* pc[w]: position of worker w inside consume/_consume
    loc,         \* loc[w]: local variables of worker w's _consume frame
    written,     \* written[w]: statuses _consume wrote in this invocation
    updates,     \* updates[w]: the field names of each update_key call of
                 \* this invocation, in call order
    calls,       \* calls[w]: external calls issued in this invocation
    result,      \* result[w]: what the last finished invocation returned
    hist,        \* facts about the past of the record
    fn           \* call under test of the pure-function specification

vars == <<settings, kind, fleet, source, redis, pc, loc, written, updates,
          calls, result, hist, fn>>

----------------------------------------------------------------------------
(* Bounds *)

MaxDeliveries == 2   \* deliveries of the job id by the queue, all workers
MaxTiles == 2        \* tiles tile_image_3D may produce for one input
MaxKeys == 2         \* names in a function list of the pure-function spec
MaxVoters == 3       \* rows of class votes the label model answers
MaxSize == 4         \* size of an axis in the tiling calls
Rank == 2            \* axes of a shape in the tiling calls

Workers == {"w1", "w2"}

----------------------------------------------------------------------------
(* Python strings *)

s_pre == <<"p", "r", "e">>
s_post == <<"p", "o", "s", "t">>
s_Post == <<"P", "o", "s", "t">>
s_PRE == <<"P", "R", "E">>
s_mid == <<"m", "i", "d">>
s_normalize == <<"n", "o", "r", "m", "a", "l", "i", "z", "e">>
s_Normalize == <<"N", "o", "r", "m", "a", "l", "i", "z", "e">>
s_watershed == <<"w", "a", "t", "e", "r", "s", "h", "e", "d">>
s_WaterShed == <<"W", "a", "t", "e", "r", "S", "h", "e", "d">>
s_retinanet == <<"r", "e", "t", "i", "n", "a", "n", "e", "t">>
s_retinanet_semantic == s_retinanet \o <<"-", "s", "e", "m", "a", "n", "t", "i", "c">>
s_not_a_real_function ==
    <<"n", "o", "t", "-", "a", "-", "r", "e", "a", "l", "-",
      "f", "u", "n", "c", "t", "i", "o", "n">>
s_empty == <<>>
comma == ","
s_zip == <<".", "z", "i", "p">>
s_file_zip == <<"f", "i", "l", "e", ".", "z", "i", "p">>
s_file_ZIp == <<"f", "i", "l", "e", ".", "Z", "I", "p">>
s_file_tiff == <<"f", "i", "l", "e", ".", "t", "i", "f", "f">>
s_file_png == <<"f", "i", "l", "e", ".", "p", "n", "g">>
s_file_zip_png == <<"f", "i", "l", "e", ".", "z", "i", "p", ".", "p", "n", "g">>
s_zip_only == <<"z", "i", "p">>
s_None == <<"N", "o", "n", "e">>

Upper == <<"A", "B", "C", "D", "E", "F", "G", "H", "I", "J", "K", "L", "M",
           "N", "O", "P", "Q", "R", "S", "T", "U", "V", "W", "X", "Y", "Z">>
LowerOf == <<"a", "b", "c", "d", "e", "f", "g", "h", "i", "j", "k", "l", "m",
             "n", "o", "p", "q", "r", "s", "t", "u", "v", "w", "x", "y", "z">>

\* str.lower() on one character
LowerChar(c) ==
    IF \E i \in 1..Len(Upper) : Upper[i] = c
    THEN LowerOf[CHOOSE i \in 1..Len(Upper) : Upper[i] = c]
    ELSE c

\* clean = lambda x: str(x).lower()
clean(x) == [i \in 1..Len(x) |-> LowerChar(x[i])]

\* str.endswith(suffix)
endswith(s, suffix) ==
    /\ Len(s) >= Len(suffix)
    /\ SubSeq(s, Len(s) - Len(suffix) + 1, Len(s)) = suffix

\* str.split(sep): the pieces between separators; ''.split(',') is ['']
RECURSIVE SplitFrom(_, _, _)
SplitFrom(s, sep, piece) ==
    IF s = <<>> THEN <<piece>>
    ELSE IF Head(s) = sep THEN <<piece>> \o SplitFrom(Tail(s), sep, <<>>)
    ELSE SplitFrom(Tail(s), sep, Append(piece, Head(s)))

split(s, sep) == SplitFrom(s, sep, <<>>)

\* ','.join(names): how a producer writes a function list into the record
RECURSIVE join(_)
join(names) ==
    IF names = <<>> THEN <<>>
    ELSE IF Len(names) = 1 THEN names[1]
    ELSE names[1] \o <<comma>> \o join(Tail(names))

----------------------------------------------------------------------------
(* Processing function registry *)

\* settings.PROCESSING_FUNCTIONS: phase -> registered names
PROCESSING_FUNCTIONS ==
    [p \in {s_pre, s_post} |->
        IF p = s_pre THEN {s_normalize}
        ELSE {s_watershed, s_retinanet, s_retinanet_semantic}]

NoError == "none"

\* outcome of a call: the value returned, or the error raised
Ret(v) == [err |-> NoError, val |-> v]
Raise(e, v) == [err |-> e, val |-> v]

NoTransform == <<s_empty, s_empty>>

\* _get_processing_function looking the name up as given
_get_processing_function_CaseSensitive(process_type, function_name) ==
    LET cat == clean(process_type)
    IN  IF cat \notin DOMAIN PROCESSING_FUNCTIONS
        THEN Raise("InvalidPhase", NoTransform)
        ELSE IF function_name \notin PROCESSING_FUNCTIONS[cat]
        THEN Raise("UnknownFunction", NoTransform)
        ELSE Ret(<<cat, function_name>>)

\* ImageFileConsumer._get_processing_function: the registered transform is
\* named by its registry slot <<cat, name>>
_get_processing_function(process_type, function_name) ==
    LET name == clean(function_name)
        cat == clean(process_type)
    IN  IF cat \notin DOMAIN PROCESSING_FUNCTIONS
        THEN Raise("InvalidPhase", NoTransform)
        ELSE IF name \notin PROCESSING_FUNCTIONS[cat]
        THEN Raise("UnknownFunction", NoTransform)
        ELSE Ret(<<cat, name>>)

\* the job id the queue hands over when it has none
NoHash == "None"

\* is_valid_hash looking for the suffix in the name as given
is_valid_hash_CaseSensitive(redis_hash, input_file_name) ==
    IF redis_hash = NoHash THEN FALSE
    ELSE ~endswith(input_file_name, s_zip)

\* ImageFileConsumer.is_valid_hash: input_file_name is
\* str(self.redis.hget(redis_hash, 'input_file_name'))
is_valid_hash(redis_hash, input_file_name) ==
    IF redis_hash = NoHash THEN FALSE
    ELSE LET fname == input_file_name
         IN  ~endswith(clean(fname), s_zip)

----------------------------------------------------------------------------
(* Images: the numerical content of an array is outside the model.  An     *)
(* image keeps what the code's control flow depends on: whether it is a    *)
(* Python list of output heads or one array, the number of elements of the *)
(* array (0, 1, or 2 standing for "more than one"), whether its single     *)
(* element is zero, and the trace of calls that produced it.               *)

PyNone == [none |-> TRUE, list |-> FALSE, numel |-> 0, zero |-> TRUE,
           trace |-> <<>>]

Array(n, z) == [none |-> FALSE, list |-> FALSE, numel |-> n, zero |-> z,
                trace |-> <<>>]

\* f(args): the registered transform returns one array, taken to have as
\* many elements as its argument and a zero element where the argument has
Call(f, form, x) ==
    [none |-> FALSE, list |-> FALSE, numel |-> x.numel, zero |-> x.zero,
     trace |-> Append(x.trace, [op |-> form, cat |-> f[1], name |-> f[2]])]

\* the operand of "x = pre if pre else image": bool(None) is False, bool of
\* a non-empty list is True, bool of an array with one element is that
\* element's, bool of an empty array is False, and bool of an array with
\* more than one element raises ValueError
PickInput(prev, image) ==
    IF prev.none THEN Ret(image)
    ELSE IF prev.list THEN Ret(prev)
    ELSE IF prev.numel > 1 THEN Raise("AmbiguousTruth", prev)
    ELSE IF prev.numel = 1 /\ ~prev.zero THEN Ret(prev)
    ELSE Ret(image)

\* ImageFileConsumer.process: val.image is the value returned, val.wrote
\* tells whether update_key({'<type>process_time': ...}) was executed
process(image, key, process_type) ==
    IF key = s_empty THEN Ret([image |-> image, wrote |-> FALSE])
    ELSE LET f == _get_processing_function(process_type, key)
         IN  IF f.err # NoError
             THEN Raise(f.err, [image |-> image, wrote |-> FALSE])
             ELSE LET results ==
                          IF key = s_retinanet_semantic
                          THEN Call(f.val, "f(image[:-1])", image)
                          ELSE IF key = s_retinanet
                          THEN Call(f.val, "f(image, rawshape)", image)
                          ELSE Call(f.val, "f(image)", image)
                  IN  Ret([image |-> results, wrote |-> TRUE])

\* one iteration of the loop of preprocess/postprocess:
\*     x = pre if pre else image; pre = self.process(x, key, type)
LoopBody(image, prev, key, process_type) ==
    LET x == PickInput(prev, image)
    IN  IF x.err # NoError
        THEN Raise(x.err, [image |-> prev, wrote |-> FALSE])
        ELSE process(x.val, key, process_type)

\* the whole loop: val.image is the value returned, val.writes the number of
\* update_key calls made on the way
RECURSIVE Loop(_, _, _, _, _)
Loop(image, prev, keys, process_type, writes) ==
    IF keys = <<>> THEN Ret([image |-> prev, writes |-> writes])
    ELSE LET r == LoopBody(image, prev, Head(keys), process_type)
             n == IF r.val.wrote THEN writes + 1 ELSE writes
         IN  IF r.err # NoError
             THEN Raise(r.err, [image |-> r.val.image, writes |-> n])
             ELSE Loop(image, r.val.image, Tail(keys), process_type, n)

\* ImageFileConsumer.preprocess
preprocess(image, keys) == Loop(image, PyNone, keys, s_pre, 0)

\* ImageFileConsumer.postprocess
postprocess(image, keys) == Loop(image, PyNone, keys, s_post, 0)

----------------------------------------------------------------------------
(* The job record and the consumer's configuration *)

Absent == ""          \* a field that is missing from the hash, or empty
ScaleAbsent == 0      \* scale is kept in thousandths; 0: missing or ''
LabelAbsent == -1     \* label is an index; -1: missing or ''
LabelNone == -2       \* the Python value None of the local variable label

ImageFileConsumer == "ImageFileConsumer"
Deepcell3DConsumer == "Deepcell3DConsumer"
MultiplexConsumer == "MultiplexConsumer"

final_status == "done"
failed_status == "failed"
finished_statuses == {final_status, failed_status}

\* utils._pick_model(label): the label -> model lookup table
_pick_model(label) ==
    IF label = 0 THEN <<"NuclearSegmentation", "1">>
    ELSE <<"PhaseCytoSegmentation", "1">>

\* utils._pick_postprocess(label): the label -> function list lookup table
_pick_postprocess(label) == IF label = 0 THEN s_watershed ELSE s_retinanet

\* settings.*_MODEL.split(':'): model name and version
DEEPCELL3D_MODEL == <<"deepcell3d", "1">>
MULTIPLEX_MODEL == <<"multiplex", "1">>
SCALE_DETECT_MODEL == <<"ScaleDetection", "1">>
LABEL_DETECT_MODEL == <<"LabelDetection", "1">>
NoModel == <<Absent, Absent>>

\* the mean, snapped to 1 also when it is exactly the error rate away
SnapScale_Inclusive(mean) ==
    LET error_rate == 10
        dist == IF mean >= 1000 THEN mean - 1000 ELSE 1000 - mean
    IN  IF dist <= error_rate THEN 1000 ELSE mean

\* ImageFileConsumer.detect_scale, lines 114-118: the mean, snapped to 1
\* when it is within the error rate of 1
SnapScale(mean) ==
    LET error_rate == 10
        dist == IF mean >= 1000 THEN mean - 1000 ELSE 1000 - mean
    IN  IF dist < error_rate THEN 1000 ELSE mean

\* ImageFileConsumer.detect_scale: mean is np.mean of what the scale model
\* answers for the image; requests counts the calls of self.predict
detect_scale(enabled, mean) ==
    IF ~enabled THEN [requests |-> 0, val |-> 1000]
    ELSE [requests |-> 1, val |-> SnapScale(mean)]

\* labels.sum(axis=0)[c]: the votes of all rows for class c
RECURSIVE ColumnSum(_, _)
ColumnSum(labels, c) ==
    IF labels = <<>> THEN 0
    ELSE Head(labels)[c] + ColumnSum(Tail(labels), c)

\* detect_label taking the last of the classes with the maximal vote
detect_label_LastOfTies(enabled, labels) ==
    IF ~enabled THEN [requests |-> 0, val |-> LabelNone]
    ELSE LET classes == 1..Len(labels[1])
             vote == [c \in classes |-> ColumnSum(labels, c)]
             maj == CHOOSE v \in {vote[c] : c \in classes} :
                        \A c \in classes : vote[c] <= v
             where == {c \in classes : vote[c] = maj}
             detected == CHOOSE c \in where : \A d \in where : d <= c
         IN  [requests |-> 1, val |-> detected - 1]

\* ImageFileConsumer.detect_label: labels is what the label model answers
\* for the image, one row of class votes per estimate; the value is the
\* 0-based index np.where(vote == maj)[-1][0]
detect_label(enabled, labels) ==
    IF ~enabled THEN [requests |-> 0, val |-> LabelNone]
    ELSE LET classes == 1..Len(labels[1])
             vote == [c \in classes |-> ColumnSum(labels, c)]
             maj == CHOOSE v \in {vote[c] : c \in classes} :
                        \A c \in classes : vote[c] <= v
             where == {c \in classes : vote[c] = maj}
             detected == CHOOSE c \in where : \A d \in where : c <= d
         IN  [requests |-> 1, val |-> detected - 1]

\* update_key(redis_hash, data): one hmset of the fields of data
update_key(rec, data) ==
    [f \in DOMAIN rec |-> IF f \in DOMAIN data THEN data[f] ELSE rec[f]]

\* a record as the producer creates it
NewRecord(status, scale, label, model, pre, post) ==
    [status |-> status, identity_started |-> Absent,
     input_file_name |-> "file.tiff",
     model_name |-> model[1], model_version |-> model[2],
     scale |-> scale, label |-> label,
     preprocess_function |-> pre, postprocess_function |-> post,
     download_time |-> Absent, preprocess_time |-> Absent,
     postprocess_time |-> Absent, upload_time |-> Absent,
     total_time |-> Absent, total_jobs |-> Absent, finished_at |-> Absent,
     output_url |-> Absent, output_file_name |-> Absent]

\* the final update without the locator of the result
FinalUpdate_NoLocator ==
    [status |-> final_status, upload_time |-> "t", total_jobs |-> "1",
     total_time |-> "t", finished_at |-> "now"]

\* the final update of a successful run, lines 303-311 / 150-158
FinalUpdate ==
    [status |-> final_status, output_url |-> "url", upload_time |-> "t",
     output_file_name |-> "dest", total_jobs |-> "1", total_time |-> "t",
     finished_at |-> "now"]

\* a record an earlier run has finished
FinishedRecord(rec, status) ==
    IF status = final_status THEN update_key(rec, FinalUpdate)
    ELSE update_key(rec, [status |-> status])

----------------------------------------------------------------------------
(* Shape reconciliation.  A shape is the tuple of the sizes of the axes.   *)
(* processing.tile_image_3D and processing.untile_image_3D are called by   *)
(* Deepcell3DConsumer but defined outside the consumers; they follow the   *)
(* per-axis policy of the tile reconciliation engine.                      *)

\* deepcell3D line 108: the model input shape
input_shape == <<20, 64, 64>>

\* deepcell3D line 111: stride_ratio=0.8, in tenths
stride_ratio == 8

\* the multiplex model's input shape without the batch axis: 3 axes, the
\* last one holding 2 channels
multiplex_input_shape == <<150, 150, 2>>

\* round(num / den): the nearest integer, a half going to the even one
round(num, den) ==
    LET q == num \div den
        rem == num % den
    IN  IF 2 * rem < den THEN q
        ELSE IF 2 * rem > den THEN q + 1
        ELSE IF q % 2 = 0 THEN q ELSE q + 1

\* the starts of the windows of width m along an axis of size s > m: one
\* every stride while the window ends before s, then the last one shifted
\* back to end at s.  A tiling of s cells by advancing windows has at most
\* s of them: more means the windows do not advance (finite is FALSE)
\* the windows with the last one left where the stride put it
RECURSIVE WindowStarts_NoShift(_, _, _, _, _)
WindowStarts_NoShift(s, m, stride, start, acc) ==
    IF Len(acc) > s THEN [finite |-> FALSE, starts |-> acc]
    ELSE IF start + m >= s
    THEN [finite |-> TRUE, starts |-> Append(acc, start)]
    ELSE WindowStarts_NoShift(s, m, stride, start + stride,
                              Append(acc, start))

RECURSIVE WindowStarts(_, _, _, _, _)
WindowStarts(s, m, stride, start, acc) ==
    IF Len(acc) > s THEN [finite |-> FALSE, starts |-> acc]
    ELSE IF start + m >= s
    THEN [finite |-> TRUE, starts |-> Append(acc, s - m)]
    ELSE WindowStarts(s, m, stride, start + stride, Append(acc, start))

\* the policy of one axis: pass through when s = m, pad up to m when
\* s < m, overlapping windows with stride round(m * r) when s > m
TileAxis(s, m, ratio) ==
    IF s <= m THEN [finite |-> TRUE, starts |-> <<0>>, pad |-> m - s]
    ELSE LET ws == WindowStarts(s, m, round(m * ratio, 10), 0, <<>>)
         IN  [finite |-> ws.finite, starts |-> ws.starts, pad |-> 0]

RECURSIVE Product(_)
Product(ns) == IF ns = <<>> THEN 1 ELSE Head(ns) * Product(Tail(ns))

\* processing.tile_image_3D(image, model_input_shape, stride_ratio): the
\* layout tiles_info; the tiles are the cross product of the axes' windows
tile_image_3D(shape, model_input_shape, ratio) ==
    LET axes == [i \in DOMAIN shape |->
                    TileAxis(shape[i], model_input_shape[i], ratio)]
    IN  [axes |-> axes,
         finite |-> \A i \in DOMAIN shape : axes[i].finite,
         tiles |-> Product([i \in DOMAIN shape |-> Len(axes[i].starts)]),
         tile_shape |-> model_input_shape,
         image_shape |-> shape]

NoTiles == [axes |-> <<>>, finite |-> TRUE, tiles |-> 0,
            tile_shape |-> <<>>, image_shape |-> <<>>]

\* processing.untile_image_3D(tiles, tiles_info, model_input_shape): the
\* spatial shape of the reassembled array, the padding stripped
untile_image_3D(shape, tiles_info, model_input_shape) ==
    tiles_info.image_shape

\* np.squeeze(image): the axes of size 1 removed
squeeze(shape) == SelectSeq(shape, LAMBDA d : d # 1)

\* the shape check looking at the number of axes only
ShapeValid_RankOnly(shape) == Len(shape) = Len(multiplex_input_shape)

\* the shape check of the multiplex route: 3 axes, the 2 channels first or
\* last
ShapeValid(shape) ==
    LET rank == Len(multiplex_input_shape)
        channels == multiplex_input_shape[rank]
    IN  /\ Len(shape) = rank
        /\ shape[1] = channels \/ shape[rank] = channels

----------------------------------------------------------------------------
(* Local variables of one _consume frame *)

NoLoc ==
    [hvals |-> NewRecord(Absent, ScaleAbsent, LabelAbsent,
                         NoModel, s_empty, s_empty),
     image |-> PyNone, prev |-> PyNone, keys |-> <<>>,
     scale |-> ScaleAbsent, label |-> LabelNone, model |-> NoModel,
     tiles |-> 0, tilenum |-> 0, tiles_info |-> NoTiles,
     inner_d |-> <<>>, outer_d |-> <<>>, untiled |-> <<>>, shape |-> <<>>,
     err |-> NoError]

NoResult == [returned |-> Absent, raised |-> NoError]

\* the last status this worker's _consume wrote
LastWritten(w) ==
    IF written[w] = <<>> THEN Absent ELSE written[w][Len(written[w])]

\* an external call as issued: which call, for which model, the status
\* this worker had last persisted, and the value of the tile counter
Issue(w, call, model) ==
    Append(calls[w], [call |-> call, model |-> model,
                      status |-> LastWritten(w), tile |-> loc[w].tilenum])

InferenceCalls(w) ==
    {i \in 1..Len(calls[w]) :
        calls[w][i].call \in {"predict", "detect_scale", "detect_label"}}

----------------------------------------------------------------------------
(* _consume, one action per record-store operation or external call.  The  *)
(* local computation that follows an operation belongs to its action.      *)

Goto(w, p, l) ==
    /\ pc' = [pc EXCEPT ![w] = p]
    /\ loc' = [loc EXCEPT ![w] = l]

\* an exception swallowed inside _consume, which then returns None
Throw_Swallowed(w, e) == Goto(w, "idle", NoLoc)

\* an exception leaves _consume: nothing in _consume catches it
Throw(w, e) == Goto(w, "raised", [loc[w] EXCEPT !.err = e])

Write(w, data) ==
    /\ redis' = update_key(redis, data)
    /\ written' = [written EXCEPT ![w] =
                      IF "status" \in DOMAIN data
                      THEN Append(@, data.status) ELSE @]
    /\ updates' = [updates EXCEPT ![w] = Append(@, DOMAIN data)]

\* the entry check, testing for the final status only
IsFinished_OnlyDone(hvals) == hvals.status = final_status

\* the entry check, also turning away a job some worker has started
IsFinished_Claimed(hvals) == hvals.status # Absent

\* lines 187-190 / 50-53: the entry check
IsFinished(hvals) == hvals.status \in finished_statuses

\* lines 252-253: pre_funcs = hvals.get('preprocess_function', '').split(',')
PreStage(l) ==
    [pc |-> "preprocess",
     loc |-> [l EXCEPT !.keys = split(l.hvals.preprocess_function, comma),
                       !.prev = PyNone]]

\* lines 232-250: the model route, from the record or from the label
LabelStage(l) ==
    IF /\ settings.LABEL_DETECT_ENABLED
       /\ l.hvals.model_name # Absent
       /\ l.hvals.model_version # Absent
    THEN PreStage(l)
    ELSE IF settings.LABEL_DETECT_ENABLED
    THEN IF l.hvals.label = LabelAbsent
         THEN [pc |-> "detect_label", loc |-> l]
         ELSE PreStage([l EXCEPT !.label = l.hvals.label,
                                 !.model = _pick_model(l.hvals.label)])
    ELSE PreStage(l)

\* lines 217-227: the scale given in the record, or detect_scale
ScaleStage(l) ==
    IF l.hvals.scale = ScaleAbsent
    THEN [pc |-> "detect_scale", loc |-> l]
    ELSE LabelStage([l EXCEPT !.scale = l.hvals.scale])

\* deepcell3D lines 81-111: scale defaults to 1 and is not written, then
\* the volume is tiled, unless tile_image_3D raises
Tile3DStage(l, volume, ok) ==
    LET sc == IF l.hvals.scale = ScaleAbsent THEN 1000 ELSE l.hvals.scale
        tiles_info == tile_image_3D(volume, input_shape, stride_ratio)
    IN  IF ~ok
        THEN [pc |-> "raised",
              loc |-> [l EXCEPT !.scale = sc, !.err = "TileFailure"]]
        ELSE [pc |-> "predicting",
              loc |-> [l EXCEPT !.scale = sc, !.tiles = tiles_info.tiles,
                                !.tiles_info = tiles_info]]

\* the multiplex route: the shape of the squeezed image is checked before
\* anything is sent to the model; scale defaults to 1
ShapeStage(l, shape) ==
    LET sc == IF l.hvals.scale = ScaleAbsent THEN 1000 ELSE l.hvals.scale
    IN  IF ~ShapeValid(squeeze(shape))
        THEN [pc |-> "raised",
              loc |-> [l EXCEPT !.scale = sc, !.err = "InvalidShape"]]
        ELSE [pc |-> "predicting", loc |-> [l EXCEPT !.scale = sc]]

\* the post-processing list taken from the record whatever the label
post_funcs_FromRecord(l) == split(l.hvals.postprocess_function, comma)

\* lines 263-266: the post-processing list, from the label or the record
post_funcs(l) ==
    IF settings.LABEL_DETECT_ENABLED /\ l.label # LabelNone
    THEN split(_pick_postprocess(l.label), comma)
    ELSE split(l.hvals.postprocess_function, comma)

\* the queue hands the job id to worker w, which calls _consume
Deliver(w) ==
    /\ w \in fleet
    /\ pc[w] = "idle"
    /\ hist.deliveries < MaxDeliveries
    /\ pc' = [pc EXCEPT ![w] = "hgetall"]
    /\ written' = [written EXCEPT ![w] = <<>>]
    /\ updates' = [updates EXCEPT ![w] = <<>>]
    /\ calls' = [calls EXCEPT ![w] = <<>>]
    /\ result' = [result EXCEPT ![w] = NoResult]
    /\ hist' = [hist EXCEPT !.deliveries = @ + 1]
    /\ UNCHANGED <<settings, kind, fleet, source, redis, loc, fn>>

\* lines 182-193 / 48-56
Hgetall(w) ==
    /\ pc[w] = "hgetall"
    /\ IF IsFinished(redis)
       THEN /\ pc' = [pc EXCEPT ![w] = "idle"]
            /\ result' = [result EXCEPT ![w].returned = redis.status]
            /\ loc' = loc
       ELSE /\ Goto(w, "started", [loc[w] EXCEPT !.hvals = redis])
            /\ result' = result
    /\ UNCHANGED <<settings, kind, fleet, source, redis, written, updates, calls,
                   hist, fn>>

\* lines 195-202 / 58-64
WriteStarted(w) ==
    /\ pc[w] = "started"
    /\ Write(w, [status |-> "started", identity_started |-> w])
    /\ Goto(w, "download",
            [loc[w] EXCEPT !.model =
                IF kind = Deepcell3DConsumer THEN DEEPCELL3D_MODEL
                ELSE IF kind = MultiplexConsumer THEN MULTIPLEX_MODEL
                ELSE <<loc[w].hvals.model_name, loc[w].hvals.model_version>>])
    /\ UNCHANGED <<settings, kind, fleet, source, calls, result, hist, fn>>

\* lines 206-208 / 69-72
Download(w) ==
    /\ pc[w] = "download"
    /\ calls' = [calls EXCEPT ![w] = Issue(w, "download", NoModel)]
    /\ \E ok \in BOOLEAN :
          IF ok THEN Goto(w, "pre-processing",
                          [loc[w] EXCEPT !.image = source.image])
          ELSE Throw(w, "StorageFailure")
    /\ UNCHANGED <<settings, kind, fleet, source, redis, written, updates, result,
                   hist, fn>>

\* lines 211-227 / 75-111
WritePreprocessing(w) ==
    /\ pc[w] = "pre-processing"
    /\ Write(w, [status |-> "pre-processing", download_time |-> "t"])
    /\ \E ok \in BOOLEAN :
          LET nxt == IF kind = Deepcell3DConsumer
                     THEN Tile3DStage(loc[w], source.volume, ok)
                     ELSE IF kind = MultiplexConsumer
                     THEN ShapeStage(loc[w], source.shape)
                     ELSE ScaleStage(loc[w])
          IN  Goto(w, nxt.pc, nxt.loc)
    /\ UNCHANGED <<settings, kind, fleet, source, calls, result, hist, fn>>

\* lines 220-221 and detect_scale, lines 102-122
DetectScale(w) ==
    /\ pc[w] = "detect_scale"
    /\ LET r == detect_scale(settings.SCALE_DETECT_ENABLED, source.mean)
       IN  IF r.requests = 0
           THEN /\ Goto(w, "write_scale", [loc[w] EXCEPT !.scale = r.val])
                /\ calls' = calls
           ELSE /\ calls' = [calls EXCEPT ![w] =
                                Issue(w, "detect_scale", SCALE_DETECT_MODEL)]
                /\ \/ Goto(w, "write_scale",
                            [loc[w] EXCEPT !.scale = r.val])
                   \/ Throw(w, "InferenceFailure")
    /\ UNCHANGED <<settings, kind, fleet, source, redis, written, updates, result,
                   hist, fn>>

\* lines 222-250
WriteScale(w) ==
    /\ pc[w] = "write_scale"
    /\ Write(w, [scale |-> loc[w].scale])
    /\ LET nxt == LabelStage(loc[w]) IN Goto(w, nxt.pc, nxt.loc)
    /\ UNCHANGED <<settings, kind, fleet, source, calls, result, hist, fn>>

\* line 242 and detect_label, lines 124-144
DetectLabel(w) ==
    /\ pc[w] = "detect_label"
    /\ LET r == detect_label(settings.LABEL_DETECT_ENABLED, source.votes)
       IN  IF r.requests = 0
           THEN /\ Goto(w, "write_label", [loc[w] EXCEPT !.label = r.val])
                /\ calls' = calls
           ELSE /\ calls' = [calls EXCEPT ![w] =
                                Issue(w, "detect_label", LABEL_DETECT_MODEL)]
                /\ \/ Goto(w, "write_label",
                            [loc[w] EXCEPT !.label = r.val])
                   \/ Throw(w, "InferenceFailure")
    /\ UNCHANGED <<settings, kind, fleet, source, redis, written, updates, result,
                   hist, fn>>

\* lines 244-253
WriteLabel(w) ==
    /\ pc[w] = "write_label"
    /\ Write(w, [label |-> loc[w].label])
    /\ LET nxt == PreStage([loc[w] EXCEPT !.model = _pick_model(loc[w].label)])
       IN  Goto(w, nxt.pc, nxt.loc)
    /\ UNCHANGED <<settings, kind, fleet, source, calls, result, hist, fn>>

\* one iteration of the loop of preprocess (lines 158-160, 66-100); after
\* the last one, line 253 assigns the value returned to image
PreprocessStep(w) ==
    /\ pc[w] = "preprocess"
    /\ LET l == loc[w]
           r == LoopBody(l.image, l.prev, Head(l.keys), s_pre)
           rest == Tail(l.keys)
       IN  IF r.err # NoError
           THEN Throw(w, r.err) /\ UNCHANGED <<redis, written, updates>>
           ELSE /\ IF r.val.wrote
                   THEN Write(w, [preprocess_time |-> "t"])
                   ELSE UNCHANGED <<redis, written, updates>>
                /\ IF rest = <<>>
                   THEN Goto(w, "predicting",
                             [l EXCEPT !.keys = rest, !.prev = PyNone,
                                       !.image = r.val.image])
                   ELSE Goto(w, "preprocess",
                             [l EXCEPT !.keys = rest, !.prev = r.val.image])
    /\ UNCHANGED <<settings, kind, fleet, source, calls, result, hist, fn>>

\* line 256 / 114 without the update of the status
WritePredicting_NoWrite(w) ==
    /\ pc[w] = "predicting"
    /\ Goto(w, "predict", [loc[w] EXCEPT !.tilenum = 0])
    /\ UNCHANGED <<settings, kind, fleet, source, redis, written, updates, calls,
                   result, hist, fn>>

\* line 256 / 114
WritePredicting(w) ==
    /\ pc[w] = "predicting"
    /\ Write(w, [status |-> "predicting"])
    /\ Goto(w, "predict", [loc[w] EXCEPT !.tilenum = 0])
    /\ UNCHANGED <<settings, kind, fleet, source, calls, result, hist, fn>>

\* the array or the list of output heads the model returns
Predicted(x, heads) ==
    [none |-> FALSE, list |-> heads > 1, numel |-> x.numel, zero |-> x.zero,
     trace |-> Append(x.trace, [op |-> "predict", cat |-> s_empty,
                                name |-> s_empty])]

\* the loop body putting each prediction in front of the collected ones
Collect_Reversed(l) ==
    [l EXCEPT !.tilenum = @ + 1,
              !.inner_d = <<[tile |-> l.tilenum, head |-> 0]>> \o @,
              !.outer_d = <<[tile |-> l.tilenum, head |-> 1]>> \o @]

\* deepcell3D lines 116-121: the body of the loop over the tiles, after
\* predict has returned: head 0 of the prediction of tile tilenum is
\* appended to inner_d, head 1 to outer_d
Collect(l) ==
    [l EXCEPT !.tilenum = @ + 1,
              !.inner_d = Append(@, [tile |-> l.tilenum, head |-> 0]),
              !.outer_d = Append(@, [tile |-> l.tilenum, head |-> 1])]

\* line 258: one call of predict; deepcell3D lines 118-125: one call of
\* predict per tile, the two heads collected into a list after the last
Predict(w) ==
    /\ pc[w] = "predict"
    /\ LET l == loc[w] IN
       \/ /\ kind = ImageFileConsumer
          /\ Throw(w, "InvalidShape")
          /\ calls' = calls
       \/ /\ calls' = [calls EXCEPT ![w] = Issue(w, "predict", l.model)]
          /\ \/ Throw(w, "InferenceFailure")
             \/ /\ kind # Deepcell3DConsumer
                /\ Goto(w, "post-processing",
                        [l EXCEPT !.image = Predicted(l.image, source.heads)])
             \/ /\ kind = Deepcell3DConsumer
                /\ LET m == Collect(l)
                   IN  IF l.tilenum + 1 = l.tiles
                       THEN Goto(w, "post-processing",
                                 [m EXCEPT !.image = Predicted(l.image, 2),
                                           !.shape = l.tiles_info.tile_shape])
                       ELSE Goto(w, "predict", m)
    /\ UNCHANGED <<settings, kind, fleet, source, redis, written, updates, result,
                   hist, fn>>

\* deepcell3D lines 129-133 untiling whenever there is a tile
Untile3DStage_Always(l) ==
    LET heads == <<l.inner_d, l.outer_d>>
    IN  IF Len(heads[1]) >= 1
        THEN [l EXCEPT
                 !.untiled = [h \in 1..Len(heads) |->
                                 [head |-> h - 1, tiles |-> heads[h],
                                  tiles_info |-> l.tiles_info,
                                  model_input_shape |-> input_shape]],
                 !.shape = untile_image_3D(l.shape, l.tiles_info, input_shape)]
        ELSE l

\* deepcell3D lines 129-133: when the heads hold more than one tile, each
\* head is reassembled by its own call of untile_image_3D; l.shape is the
\* spatial shape of the arrays handed to deep_watershed_3D
Untile3DStage(l) ==
    LET heads == <<l.inner_d, l.outer_d>>
    IN  IF Len(heads[1]) > 1
        THEN [l EXCEPT
                 !.untiled = [h \in 1..Len(heads) |->
                                 [head |-> h - 1, tiles |-> heads[h],
                                  tiles_info |-> l.tiles_info,
                                  model_input_shape |-> input_shape]],
                 !.shape = untile_image_3D(l.shape, l.tiles_info, input_shape)]
        ELSE l

\* lines 261-266; deepcell3D lines 128-139, where untile_image_3D and
\* deep_watershed_3D follow the write and may raise; the post-processing
\* of the multiplex route may raise as well
WritePostprocessing(w) ==
    /\ pc[w] = "post-processing"
    /\ Write(w, [status |-> "post-processing"])
    /\ IF kind = Deepcell3DConsumer
       THEN \/ Goto(w, "saving-results", Untile3DStage(loc[w]))
            \/ Throw(w, "PostprocessFailure")
       ELSE IF kind = MultiplexConsumer
       THEN \/ Goto(w, "saving-results", loc[w])
            \/ Throw(w, "PostprocessFailure")
       ELSE Goto(w, "postprocess",
                 [loc[w] EXCEPT !.keys = post_funcs(loc[w]), !.prev = PyNone])
    /\ UNCHANGED <<settings, kind, fleet, source, calls, result, hist, fn>>

\* one iteration of the loop of postprocess (lines 175-177, 66-100); after
\* the last one, line 268 assigns the value returned to image
PostprocessStep(w) ==
    /\ pc[w] = "postprocess"
    /\ LET l == loc[w]
           r == LoopBody(l.image, l.prev, Head(l.keys), s_post)
           rest == Tail(l.keys)
       IN  IF r.err # NoError
           THEN Throw(w, r.err) /\ UNCHANGED <<redis, written, updates>>
           ELSE /\ IF r.val.wrote
                   THEN Write(w, [postprocess_time |-> "t"])
                   ELSE UNCHANGED <<redis, written, updates>>
                /\ IF rest = <<>>
                   THEN Goto(w, "saving-results",
                             [l EXCEPT !.keys = rest, !.prev = PyNone,
                                       !.image = r.val.image])
                   ELSE Goto(w, "postprocess",
                             [l EXCEPT !.keys = rest, !.prev = r.val.image])
    /\ UNCHANGED <<settings, kind, fleet, source, calls, result, hist, fn>>

\* line 272 / 143 without the update of the status
WriteSavingResults_NoWrite(w) ==
    /\ pc[w] = "saving-results"
    /\ Goto(w, "upload", loc[w])
    /\ UNCHANGED <<settings, kind, fleet, source, redis, written, updates, calls,
                   result, hist, fn>>

\* line 272 / 143
WriteSavingResults(w) ==
    /\ pc[w] = "saving-results"
    /\ Write(w, [status |-> "saving-results"])
    /\ Goto(w, "upload", loc[w])
    /\ UNCHANGED <<settings, kind, fleet, source, calls, result, hist, fn>>

\* lines 274-299 / 145-146, recording the locator as soon as it is known
Upload_WritesLocator(w) ==
    /\ pc[w] = "upload"
    /\ calls' = [calls EXCEPT ![w] = Issue(w, "upload", NoModel)]
    /\ \/ /\ Goto(w, "done", loc[w])
          /\ Write(w, [output_url |-> "url", output_file_name |-> "dest"])
       \/ /\ Throw(w, "StorageFailure")
          /\ UNCHANGED <<redis, written, updates>>
    /\ UNCHANGED <<settings, kind, fleet, source, result, hist, fn>>

\* lines 274-299 / 145-146
Upload(w) ==
    /\ pc[w] = "upload"
    /\ calls' = [calls EXCEPT ![w] = Issue(w, "upload", NoModel)]
    /\ \/ Goto(w, "done", loc[w])
       \/ Throw(w, "StorageFailure")
    /\ UNCHANGED <<settings, kind, fleet, source, redis, written, updates, result,
                   hist, fn>>

\* lines 302-312 / 149-159 with an update that leaves the status as it was
WriteDone_KeepsStatus(w) ==
    /\ pc[w] = "done"
    /\ Write(w, [output_url |-> "url", output_file_name |-> "dest"])
    /\ Goto(w, "idle", NoLoc)
    /\ result' = [result EXCEPT ![w].returned = final_status]
    /\ hist' = [hist EXCEPT !.doneWrites = @ + 1]
    /\ UNCHANGED <<settings, kind, fleet, source, calls, fn>>

\* lines 302-312 / 149-159
WriteDone(w) ==
    /\ pc[w] = "done"
    /\ Write(w, FinalUpdate)
    /\ Goto(w, "idle", NoLoc)
    /\ result' = [result EXCEPT ![w].returned = final_status]
    /\ hist' = [hist EXCEPT !.doneWrites = @ + 1]
    /\ UNCHANGED <<settings, kind, fleet, source, calls, fn>>

\* the caller of _consume (consume, in the base class): an exception that
\* leaves _consume is caught there and the job is marked failed
HandleError(w) ==
    /\ pc[w] = "raised"
    /\ redis' = update_key(redis, [status |-> failed_status])
    /\ Goto(w, "idle", NoLoc)
    /\ result' = [result EXCEPT ![w].raised = loc[w].err]
    /\ UNCHANGED <<settings, kind, fleet, source, written, updates, calls, hist, fn>>

----------------------------------------------------------------------------
(* Specifications of the orchestrator *)

\* a stored image: its array, the mean of the scale model's estimates for
\* it, the class votes of the label model for it, the number of output
\* heads of the segmentation model, the shape of the array download
\* returns, and (3D) the spatial shape of the volume handed to
\* tile_image_3D
Stored(image, mean, votes, heads, shape, volume) ==
    [image |-> image, mean |-> mean, votes |-> votes, heads |-> heads,
     shape |-> shape, volume |-> volume]

\* votes with a majority for class 0, and for class 1
Votes0 == <<<<1, 0>>, <<1, 0>>, <<0, 1>>>>
Votes1 == <<<<0, 1>>>>

Sources ==
    {Stored(Array(2, FALSE), 1008, Votes0, 1, <<30, 30, 1>>, <<>>),
     Stored(Array(2, FALSE), 1050, Votes1, 2, <<30, 30, 1>>, <<>>),
     Stored(Array(1, FALSE), 1008, Votes1, 1, <<1, 1, 1>>, <<>>),
     Stored(Array(1, FALSE), 1050, Votes0, 2, <<1, 1, 1>>, <<>>),
     Stored(Array(1, TRUE), 1008, Votes0, 2, <<1, 1, 1>>, <<>>),
     Stored(Array(1, TRUE), 1050, Votes1, 1, <<1, 1, 1>>, <<>>)}

Volume(shape) ==
    Stored(Array(2, FALSE), 1000, Votes0, 2, shape \o <<1>>, shape)

\* volumes that tile_image_3D cuts into 1..MaxTiles tiles along the last
\* axis, where the stride is round(64 * 0.8) = 51
Volumes == {Volume(<<20, 64, 64 + 51 * (n - 1)>>) : n \in 1..MaxTiles}

\* volumes smaller than the model input on some axis: padded on all three
\* (one tile), and padded on the first while tiled on the last
SmallVolumes == {Volume(<<10, 32, 32>>), Volume(<<10, 64, 115>>)}

\* multiplex_consumer_test, lines 78-81 and 136-143: the shapes of the
\* arrays download returns, two valid and six invalid
Channels(shape) == Stored(Array(2, FALSE), 1000, Votes0, 1, shape, <<>>)

ChannelImages ==
    {Channels(<<2, 300, 300, 1>>), Channels(<<300, 300, 2, 1>>),
     Channels(<<150, 150, 1>>), Channels(<<150, 1>>),
     Channels(<<150, 150, 1, 1>>), Channels(<<1, 150, 150, 1>>),
     Channels(<<3, 150, 150, 1>>), Channels(<<1, 1, 150, 150, 1>>)}

NoCall == [op |-> "none"]

AllSettings == [SCALE_DETECT_ENABLED : BOOLEAN, LABEL_DETECT_ENABLED : BOOLEAN]

Records(scales, labels, models, pres, posts) ==
    {FinishedRecord(NewRecord(Absent, sc, lb, m, pre, post), st) :
        sc \in scales, lb \in labels, m \in models, pre \in pres,
        post \in posts, st \in {Absent, final_status, failed_status}}

\* a deployment and a job: the flags, the consumer class, the stored image
\* and the record.  Deepcell3DConsumer reads neither the flags nor the
\* label, model and function-list fields, so one value of each stands for all
Configs(setts, srcs, recs2D, volumes, channels) ==
    [settings : setts, kind : {ImageFileConsumer}, source : srcs,
     redis : recs2D]
    \cup
    [settings : {[SCALE_DETECT_ENABLED |-> FALSE,
                  LABEL_DETECT_ENABLED |-> FALSE]},
     kind : {Deepcell3DConsumer}, source : volumes,
     redis : Records({ScaleAbsent, 900}, {LabelAbsent}, {NoModel},
                     {s_empty}, {s_empty})]
    \cup
    [settings : {[SCALE_DETECT_ENABLED |-> FALSE,
                  LABEL_DETECT_ENABLED |-> FALSE]},
     kind : {MultiplexConsumer}, source : channels,
     redis : Records({ScaleAbsent, 900}, {LabelAbsent}, {NoModel},
                     {s_empty}, {s_empty})]

\* the jobs of the single-worker specification
SingleConfigs ==
    Configs(AllSettings, Sources,
            Records({ScaleAbsent, 900}, {LabelAbsent, 0},
                    {NoModel, <<"model", "1">>, <<"model", Absent>>},
                    {s_empty, s_normalize, s_not_a_real_function,
                     join(<<s_normalize, s_Normalize>>)},
                    {s_empty, s_WaterShed, s_not_a_real_function}),
            Volumes \cup SmallVolumes, ChannelImages)

\* the jobs of the concurrent specification
FleetConfigs ==
    Configs({st \in AllSettings :
                st.SCALE_DETECT_ENABLED = st.LABEL_DETECT_ENABLED},
            {Stored(Array(1, FALSE), 1050, Votes1, 1, <<1, 1, 1>>, <<>>)},
            Records({ScaleAbsent, 900}, {LabelAbsent}, {NoModel},
                    {s_normalize}, {s_WaterShed}),
            Volumes, {})

InitWith(workers, configs) ==
    /\ \E c \in configs :
          /\ settings = c.settings
          /\ kind = c.kind
          /\ source = c.source
          /\ redis = c.redis
    /\ fleet = workers
    /\ pc = [w \in Workers |-> "idle"]
    /\ loc = [w \in Workers |-> NoLoc]
    /\ written = [w \in Workers |-> <<>>]
    /\ updates = [w \in Workers |-> <<>>]
    /\ calls = [w \in Workers |-> <<>>]
    /\ result = [w \in Workers |-> NoResult]
    /\ hist = [deliveries |-> 0, doneWrites |-> 0, rec0 |-> redis]
    /\ fn = NoCall

Init == InitWith(Workers, FleetConfigs)

Step(w) ==
    \/ Deliver(w)
    \/ Hgetall(w)
    \/ WriteStarted(w)
    \/ Download(w)
    \/ WritePreprocessing(w)
    \/ DetectScale(w)
    \/ WriteScale(w)
    \/ DetectLabel(w)
    \/ WriteLabel(w)
    \/ PreprocessStep(w)
    \/ WritePredicting(w)
    \/ Predict(w)
    \/ WritePostprocessing(w)
    \/ PostprocessStep(w)
    \/ WriteSavingResults(w)
    \/ Upload(w)
    \/ WriteDone(w)
    \/ HandleError(w)

Next == \E w \in Workers : Step(w)

Spec == Init /\ [][Next]_vars

InitSingle == InitWith({"w1"}, SingleConfigs)

SpecSingle == InitSingle /\ [][Next]_vars

\* a worker inside consume is not suspended for ever: every call of the
\* record store, the storage and the model server returns or raises
SpecSingleFair ==
    /\ InitSingle
    /\ [][Next]_vars
    /\ \A w \in Workers : WF_vars(pc[w] # "idle" /\ Step(w))

----------------------------------------------------------------------------
(* Specification of the pure functions: Init draws a call and its           *)
(* arguments, the action of the function called computes what it returns.  *)

Phases == {s_pre, s_post, s_PRE, s_Post, s_mid}

Names == {s_empty, s_normalize, s_Normalize, s_watershed, s_WaterShed,
          s_retinanet, s_retinanet_semantic, s_not_a_real_function}

Keys == {s_empty, s_normalize, s_Normalize, s_watershed,
         s_not_a_real_function}

\* keys is what str.split(',') returns: at least one piece
KeyLists == UNION {[1..n -> Keys] : n \in 1..MaxKeys}

Images == {Array(2, FALSE), Array(1, FALSE),
           [Array(2, FALSE) EXCEPT !.list = TRUE]}

\* means of the scale estimates, in thousandths
Means == {900, 989, 990, 991, 992, 1000, 1008, 1009, 1010, 1011, 1050}

\* answers of the label model: one row of class votes per estimate, for
\* two and for three classes
Rows2 == {<<1, 0>>, <<0, 1>>}
Rows3 == {<<1, 0, 0>>, <<0, 1, 0>>, <<0, 0, 1>>}
Ballots == UNION {[1..n -> Rows2] \cup [1..n -> Rows3] : n \in 1..MaxVoters}

\* values of the record's input_file_name; 'None' is str() of a missing one
FileNames == {s_file_zip, s_file_ZIp, s_file_tiff, s_file_png,
              s_file_zip_png, s_zip_only, s_zip, s_None}

Shapes == [1..Rank -> 1..MaxSize]

\* stride ratios in tenths: 0.1 .. 1.0
Ratios == 1..10

FnCalls ==
    [op : {"_get_processing_function"}, process_type : Phases,
     function_name : Names, done : {FALSE}, out : {Ret(NoTransform)}]
    \cup
    [op : {"preprocess", "postprocess"}, image : Images, keys : KeyLists,
     done : {FALSE}, out : {Ret([image |-> PyNone, writes |-> 0])}]
    \cup
    [op : {"detect_scale"}, enabled : BOOLEAN, mean : Means,
     done : {FALSE}, out : {[requests |-> 0, val |-> ScaleAbsent]}]
    \cup
    [op : {"detect_label"}, enabled : BOOLEAN, labels : Ballots,
     done : {FALSE}, out : {[requests |-> 0, val |-> LabelAbsent]}]
    \cup
    [op : {"is_valid_hash"}, redis_hash : {NoHash, "predict:1:job"},
     input_file_name : FileNames, done : {FALSE}, out : {FALSE}]
    \cup
    [op : {"tile_image"}, shape : Shapes, model_input_shape : Shapes,
     ratio : Ratios, done : {FALSE}, out : {NoTiles}]

InitFn ==
    /\ fn \in FnCalls
    /\ settings = [SCALE_DETECT_ENABLED |-> FALSE,
                   LABEL_DETECT_ENABLED |-> FALSE]
    /\ kind = ImageFileConsumer
    /\ fleet = {}
    /\ source = Stored(Array(2, FALSE), 1000, Votes0, 1, <<30, 30, 1>>, <<>>)
    /\ redis = NewRecord(Absent, ScaleAbsent, LabelAbsent, NoModel,
                         s_empty, s_empty)
    /\ pc = [w \in Workers |-> "idle"]
    /\ loc = [w \in Workers |-> NoLoc]
    /\ written = [w \in Workers |-> <<>>]
    /\ updates = [w \in Workers |-> <<>>]
    /\ calls = [w \in Workers |-> <<>>]
    /\ result = [w \in Workers |-> NoResult]
    /\ hist = [deliveries |-> 0, doneWrites |-> 0, rec0 |-> redis]

Returns(out) ==
    /\ fn' = [fn EXCEPT !.done = TRUE, !.out = out]
    /\ UNCHANGED <<settings, kind, fleet, source, redis, pc, loc, written, updates,
                   calls, result, hist>>

GetProcessingFunction ==
    /\ fn.op = "_get_processing_function"
    /\ ~fn.done
    /\ Returns(_get_processing_function(fn.process_type, fn.function_name))

Preprocess ==
    /\ fn.op = "preprocess"
    /\ ~fn.done
    /\ Returns(preprocess(fn.image, fn.keys))

Postprocess ==
    /\ fn.op = "postprocess"
    /\ ~fn.done
    /\ Returns(postprocess(fn.image, fn.keys))

CallDetectScale ==
    /\ fn.op = "detect_scale"
    /\ ~fn.done
    /\ Returns(detect_scale(fn.enabled, fn.mean))

CallDetectLabel ==
    /\ fn.op = "detect_label"
    /\ ~fn.done
    /\ Returns(detect_label(fn.enabled, fn.labels))

CallIsValidHash ==
    /\ fn.op = "is_valid_hash"
    /\ ~fn.done
    /\ Returns(is_valid_hash(fn.redis_hash, fn.input_file_name))

CallTileImage ==
    /\ fn.op = "tile_image"
    /\ ~fn.done
    /\ Returns(tile_image_3D(fn.shape, fn.model_input_shape, fn.ratio))

NextFn ==
    \/ GetProcessingFunction
    \/ Preprocess
    \/ Postprocess
    \/ CallDetectScale
    \/ CallDetectLabel
    \/ CallIsValidHash
    \/ CallTileImage

SpecFn == InitFn /\ [][NextFn]_vars

----------------------------------------------------------------------------
(* Properties *)

Finished == {"done", "failed"}

InPipeline(w) == pc[w] \notin {"idle", "hgetall", "raised"}

\* worker w takes the step that loads the record and checks its status
Loads(w) == pc[w] = "hgetall" /\ pc'[w] # "hgetall"

\* C1: a _consume that finds the stored status done or failed returns that
\* status, changes no field of the record and issues no download, no
\* inference request and no upload (both consumer classes).
C1_IdempotentRedelivery ==
    [][\A w \in Workers :
          Loads(w) /\ redis.status \in Finished =>
              /\ pc'[w] = "idle"
              /\ result'[w].returned = redis.status
              /\ result'[w].raised = NoError
              /\ redis' = redis
              /\ calls'[w] = <<>>
              /\ written'[w] = <<>>]_vars

\* a worker was handed a failed job while another had worked on it, and
\* returned 'failed' without a call
C1_Witness ==
    \E w \in Workers :
        /\ pc[w] = "idle"
        /\ result[w].returned = "failed"
        /\ calls[w] = <<>>
        /\ redis.identity_started \in Workers \ {w}

Order == <<"started", "pre-processing", "predicting", "post-processing",
           "saving-results", "done">>

\* C3: the statuses one invocation of _consume writes are a prefix of
\* started, pre-processing, predicting, post-processing, saving-results,
\* done (in this order, none skipped, none twice), and a run that returns
\* 'done' after working on the job has written all six.
C3_StatusOrder ==
    \A w \in Workers :
        /\ Len(written[w]) <= Len(Order)
        /\ \A i \in 1..Len(written[w]) : written[w][i] = Order[i]
        /\ result[w].returned = "done" /\ calls[w] # <<>> =>
               written[w] = Order

\* a run has returned 'done' having written the six statuses
C3_Witness ==
    \E w \in Workers :
        /\ pc[w] = "idle"
        /\ result[w].returned = "done"
        /\ written[w] = Order

\* the stage the specification assigns to each external call
StageOfCall(call) ==
    CASE call = "download" -> "pre-processing"
      [] call = "detect_scale" -> "pre-processing"
      [] call = "detect_label" -> "pre-processing"
      [] call = "predict" -> "predicting"
      [] call = "upload" -> "saving-results"

\* C4 as stated: every external call is issued after the status of its
\* stage has been persisted - download and scale/label detection under
\* 'pre-processing', inference under 'predicting', upload under
\* 'saving-results'.
C4_CallsUnderTheirStage ==
    \A w \in Workers : \A i \in 1..Len(calls[w]) :
        calls[w][i].status = StageOfCall(calls[w][i].call)

\* C4 amended: the download is issued while the last status persisted is
\* 'started' (before 'pre-processing' is written); scale and label
\* detection are issued under 'pre-processing', inference under
\* 'predicting' and the upload under 'saving-results'.
C4_CallsUnderPersistedStatus ==
    \A w \in Workers : \A i \in 1..Len(calls[w]) :
        calls[w][i].status =
            IF calls[w][i].call = "download" THEN "started"
            ELSE StageOfCall(calls[w][i].call)

\* one run has issued the download, both detections, inference and upload
C4_Witness ==
    \E w \in Workers :
        \A c \in {"download", "detect_scale", "detect_label", "predict",
                  "upload"} :
            \E i \in 1..Len(calls[w]) : calls[w][i].call = c

\* C5: once the stored status is done or failed, no step of any worker
\* changes any field of the record.
C5_FinishedRecordFrozen ==
    [][redis.status \in Finished => redis' = redis]_vars

\* C6: the entry check turns a delivery away exactly when the status it
\* reads is done or failed; any other delivery enters the pipeline,
\* whatever the other workers are doing, so two workers can be inside the
\* pipeline of the same job at once.
C6_OnlyFinishedRejected ==
    [][\A w \in Workers :
          Loads(w) =>
              IF redis.status \in Finished
              THEN pc'[w] = "idle"
              ELSE pc'[w] = "started" /\ loc'[w].hvals = redis]_vars

\* both workers have written 'started' and issued their own download, and
\* both are still inside the pipeline
C6_Witness ==
    \A w \in Workers :
        /\ InPipeline(w)
        /\ written[w] # <<>>
        /\ \E i \in 1..Len(calls[w]) : calls[w][i].call = "download"

\* C7: output_url and output_file_name are written only by the update that
\* sets status to 'done': if either differs from what the record held at
\* entry, some run has written 'done', and every step that changes either
\* leaves the status 'done'.
C7_LocatorOnlyOnSuccess ==
    /\ [](\/ hist.doneWrites > 0
          \/ /\ redis.output_url = hist.rec0.output_url
             /\ redis.output_file_name = hist.rec0.output_file_name)
    /\ [][(\/ redis'.output_url # redis.output_url
           \/ redis'.output_file_name # redis.output_file_name)
          => redis'.status = "done"]_vars

\* one run was aborted after its upload failed and left no locator, and
\* another has set the locator together with 'done'
C7_Witness ==
    /\ hist.rec0.output_url = Absent
    /\ redis.output_url # Absent
    /\ hist.doneWrites > 0
    /\ \E w \in Workers :
          result[w].raised = "StorageFailure" /\ Len(written[w]) = 5

\* C8: a run that aborts on a name that is not registered has sent no
\* inference request.
C8_UnknownFunctionBeforeInference ==
    \A w \in Workers :
        pc[w] = "raised" /\ loc[w].err = "UnknownFunction" =>
            InferenceCalls(w) = {}

\* the lower-case form of the strings the calls are drawn from
Folded(x) ==
    CASE x = s_PRE -> s_pre
      [] x = s_Post -> s_post
      [] x = s_Normalize -> s_normalize
      [] x = s_WaterShed -> s_watershed
      [] OTHER -> x

Registered(cat) ==
    CASE cat = s_pre -> {s_normalize}
      [] cat = s_post -> {s_watershed, s_retinanet, s_retinanet_semantic}
      [] OTHER -> {}

\* C9: _get_processing_function fails with the invalid-phase error when
\* the lower-cased phase is not configured (whatever the name), with the
\* unknown-function error when the phase is valid and the lower-cased name
\* is not registered under it, and otherwise returns the transform
\* registered for the lower-cased phase and name, so names that differ in
\* letter case only resolve to the same transform.
C9_RegistryResolution ==
    fn.op = "_get_processing_function" /\ fn.done =>
        LET cat == Folded(fn.process_type)
            name == Folded(fn.function_name)
        IN  /\ fn.out.err =
                   IF cat \notin {s_pre, s_post} THEN "InvalidPhase"
                   ELSE IF name \notin Registered(cat) THEN "UnknownFunction"
                   ELSE NoError
            /\ fn.out.err = NoError => fn.out.val = <<cat, name>>
            /\ \A other \in Names :
                   Folded(other) = name =>
                       _get_processing_function(fn.process_type, other)
                           = fn.out

\* 'WaterShed' under 'Post' has resolved to the transform of 'watershed'
C9_Witness ==
    /\ fn.op = "_get_processing_function"
    /\ fn.done
    /\ fn.process_type = s_Post
    /\ fn.function_name = s_WaterShed
    /\ fn.out = Ret(<<s_post, s_watershed>>)

\* f_n(...f_2(f_1(image))...): each named function called once, in list
\* order, on the previous one's output; empty names call nothing
RECURSIVE Composed(_, _, _)
Composed(image, keys, process_type) ==
    IF keys = <<>> THEN image
    ELSE Composed(process(image, Head(keys), process_type).val.image,
                  Tail(keys), process_type)

\* C10: for a list of names registered for the phase, preprocess and
\* postprocess return the functions composed in list order, each applied
\* once to the previous output; for a list without names (empty, or empty
\* names only) they return the image unchanged.
C10_ListComposition ==
    fn.op \in {"preprocess", "postprocess"} /\ fn.done =>
        LET cat == IF fn.op = "preprocess" THEN s_pre ELSE s_post
        IN  (\A i \in 1..Len(fn.keys) :
                 fn.keys[i] = s_empty \/ Folded(fn.keys[i]) \in Registered(cat))
            => /\ fn.out.err = NoError
               /\ fn.out.val.image = Composed(fn.image, fn.keys, cat)

\* C11: with scale detection enabled detect_scale sends one inference
\* request and returns exactly 1 when the mean of the estimates is less
\* than 0.01 away from 1 (1.008 -> 1) and the mean itself otherwise
\* (1.05 -> 1.05); with detection disabled it returns 1 and sends none.
C11_ScaleSnapping ==
    fn.op = "detect_scale" /\ fn.done =>
        IF fn.enabled
        THEN /\ fn.out.requests = 1
             /\ fn.out.val = IF 990 < fn.mean /\ fn.mean < 1010
                             THEN 1000 ELSE fn.mean
        ELSE fn.out = [requests |-> 0, val |-> 1000]

\* detection was enabled and a mean of 1.008 came back as 1
C11_Witness ==
    /\ fn.op = "detect_scale"
    /\ fn.done
    /\ fn.enabled
    /\ fn.mean = 1008
    /\ fn.out.val = 1000

\* the number of rows voting for class c
VotesFor(labels, c) == Cardinality({i \in 1..Len(labels) : labels[i][c] = 1})

\* C12: with label detection enabled detect_label sends one inference
\* request and returns the index of the class with the largest summed
\* vote, the lowest such index on a tie; with detection disabled it
\* returns none and sends no request.
C12_LabelVoting ==
    fn.op = "detect_label" /\ fn.done =>
        IF fn.enabled
        THEN LET d == fn.out.val + 1
             IN  /\ fn.out.requests = 1
                 /\ d \in 1..Len(fn.labels[1])
                 /\ \A c \in 1..Len(fn.labels[1]) :
                        /\ VotesFor(fn.labels, c) <= VotesFor(fn.labels, d)
                        /\ c < d =>
                               VotesFor(fn.labels, c) < VotesFor(fn.labels, d)
        ELSE fn.out = [requests |-> 0, val |-> LabelNone]

\* the votes [[1,0],[1,0],[0,1]] have given label 0
C12_Witness ==
    /\ fn.op = "detect_label"
    /\ fn.done
    /\ fn.enabled
    /\ fn.labels = <<<<1, 0>>, <<1, 0>>, <<0, 1>>>>
    /\ fn.out = [requests |-> 1, val |-> 0]

\* the axes of the call that are tiled: the input is larger than the model
TiledAxes == {i \in DOMAIN fn.shape : fn.shape[i] > fn.model_input_shape[i]}

\* the windows of axis i lie inside [0, s), leave no cell of [0, s)
\* uncovered and no gap between consecutive ones, and the last ends at s
Covers(i) ==
    LET s == fn.shape[i]
        m == fn.model_input_shape[i]
        starts == fn.out.axes[i].starts
        n == Len(starts)
    IN  /\ \A k \in 1..n : starts[k] >= 0 /\ starts[k] + m <= s
        /\ \A x \in 0..(s - 1) :
               \E k \in 1..n : starts[k] <= x /\ x < starts[k] + m
        /\ \A k \in 1..(n - 1) :
               starts[k] <= starts[k + 1] /\ starts[k + 1] <= starts[k] + m
        /\ starts[n] + m = s

\* the origins of the tiles: one window start per axis
Origins ==
    {o \in [DOMAIN fn.shape -> 0..MaxSize] :
        \A i \in DOMAIN fn.shape :
            \E k \in 1..Len(fn.out.axes[i].starts) :
                o[i] = fn.out.axes[i].starts[k]}

C14_RoundTripShape ==
    kind = Deepcell3DConsumer =>
        \A w \in Workers :
            pc[w] \in {"saving-results", "upload", "done"} =>
                loc[w].shape = source.volume

\* multiplex_consumer_test lines 136-143: the shapes the route cannot
\* consume, as download returns them
InvalidShapes ==
    {<<150, 150, 1>>, <<150, 1>>, <<150, 150, 1, 1>>, <<1, 150, 150, 1>>,
     <<3, 150, 150, 1>>, <<1, 1, 150, 150, 1>>}

\* C15: on the multiplex route (a model of 3 axes with 2 channels) an
\* image of rank 1 or 2, or of rank 3 or 4 with 1 or 3 channels, makes
\* _consume raise the invalid-shape error once the image is loaded; the
\* run never reaches the predicting stage and has sent no inference
\* request (tiles are cut inside predict, so none was produced).
C15_InvalidShapeRejected ==
    kind = MultiplexConsumer /\ source.shape \in InvalidShapes =>
        \A w \in Workers :
            /\ InferenceCalls(w) = {}
            /\ loc[w].tiles = 0
            /\ "predicting" \notin {written[w][i] : i \in 1..Len(written[w])}
            /\ Len(written[w]) >= 2 =>
                   \/ pc[w] = "raised" /\ loc[w].err = "InvalidShape"
                   \/ pc[w] = "idle" /\ result[w].raised = "InvalidShape"

\* a run on the image of shape (3, 150, 150) has raised the error
C15_Witness ==
    /\ kind = MultiplexConsumer
    /\ source.shape = <<3, 150, 150, 1>>
    /\ \E w \in Workers :
          /\ pc[w] = "raised"
          /\ loc[w].err = "InvalidShape"
          /\ calls[w] # <<>>

\* the names that end in '.zip' in some letter case
ZipNames == {s_file_zip, s_file_ZIp, s_zip}

\* C16: is_valid_hash returns False for the key None and for a job whose
\* input_file_name ends in '.zip' in any letter case, True for every other
\* job, and leaves the record as it was.
C16_ValidHash ==
    fn.op = "is_valid_hash" /\ fn.done =>
        /\ fn.out = (/\ fn.redis_hash # NoHash
                     /\ fn.input_file_name \notin ZipNames)
        /\ redis = hist.rec0

\* 'file.ZIp' was turned away
C16_Witness ==
    /\ fn.op = "is_valid_hash"
    /\ fn.done
    /\ fn.redis_hash # NoHash
    /\ fn.input_file_name = s_file_ZIp
    /\ fn.out = FALSE

\* the update_key calls of this invocation that wrote the field
WritesOf(w, field) == {i \in 1..Len(updates[w]) : field \in updates[w][i]}

\* the external calls of this invocation of one kind
CallsOf(w, call) == {i \in 1..Len(calls[w]) : calls[w][i].call = call}

\* worker w's _consume has a frame: it has loaded the record and not
\* returned
InFrame(w) == pc[w] \notin {"idle", "hgetall"}

\* C17: in ImageFileConsumer and in Deepcell3DConsumer, a run whose record
\* gives a scale at entry uses it, sends no scale detection request and
\* does not write scale; a run whose record gives none writes scale
\* exactly once before the predicting stage, so that the record holds the
\* scale the run used.
C17_ScaleResolution ==
    kind \in {ImageFileConsumer, Deepcell3DConsumer} =>
        \A w \in fleet :
            InFrame(w) /\ written[w] # <<>> =>
                LET settled == "predicting" \in
                                   {written[w][i] : i \in 1..Len(written[w])}
                IN  IF loc[w].hvals.scale # ScaleAbsent
                    THEN /\ CallsOf(w, "detect_scale") = {}
                         /\ WritesOf(w, "scale") = {}
                         /\ settled => loc[w].scale = loc[w].hvals.scale
                    ELSE /\ Cardinality(WritesOf(w, "scale")) <= 1
                         /\ settled =>
                                /\ Cardinality(WritesOf(w, "scale")) = 1
                                /\ redis.scale = loc[w].scale

\* the label a run routes by: the record's, or the one the votes elect
RoutingLabel(w) ==
    IF loc[w].hvals.label # LabelAbsent THEN loc[w].hvals.label
    ELSE IF source.votes = Votes0 THEN 0 ELSE 1

\* C18: in ImageFileConsumer, when label detection is enabled and the
\* record does not give both model_name and model_version, the label is
\* the record's (no detection request, no write) or is detected once and
\* written, and both the model of the inference request and the
\* post-processing list come from the label's table entries; otherwise no
\* label is detected or written and both come from the record (whose
\* post-processing lists here hold a single name).
C18_LabelRouting ==
    kind = ImageFileConsumer =>
        \A w \in fleet :
            InFrame(w) /\ written[w] # <<>> =>
                LET l == loc[w]
                    h == l.hvals
                    byLabel == /\ settings.LABEL_DETECT_ENABLED
                               /\ ~(h.model_name # Absent
                                     /\ h.model_version # Absent)
                    detections == Cardinality(CallsOf(w, "detect_label"))
                    writes == Cardinality(WritesOf(w, "label"))
                    settled == "predicting" \in
                                   {written[w][i] : i \in 1..Len(written[w])}
                    model == IF byLabel THEN _pick_model(RoutingLabel(w))
                             ELSE <<h.model_name, h.model_version>>
                    posts == IF byLabel
                             THEN <<_pick_postprocess(RoutingLabel(w))>>
                             ELSE <<h.postprocess_function>>
                IN  /\ byLabel /\ h.label = LabelAbsent =>
                           /\ writes <= detections /\ detections <= 1
                           /\ settled =>
                                  /\ detections = 1 /\ writes = 1
                                  /\ redis.label = RoutingLabel(w)
                    /\ ~(byLabel /\ h.label = LabelAbsent) =>
                           detections = 0 /\ writes = 0
                    /\ \A i \in CallsOf(w, "predict") :
                           calls[w][i].model = model
                    /\ pc[w] = "postprocess" /\ l.prev = PyNone =>
                           l.keys = posts

\* with detection enabled and no model in the record, a run has detected
\* label 1 once, sent its inference request to the model of label 1 and is
\* about to post-process with the function list of label 1
C18_Witness ==
    /\ kind = ImageFileConsumer
    /\ settings.LABEL_DETECT_ENABLED
    /\ \E w \in fleet :
          /\ pc[w] = "postprocess"
          /\ loc[w].hvals.model_name = Absent
          /\ loc[w].hvals.label = LabelAbsent
          /\ Cardinality(CallsOf(w, "detect_label")) = 1
          /\ redis.label = 1
          /\ \E i \in CallsOf(w, "predict") :
                 calls[w][i].model = <<"PhaseCytoSegmentation", "1">>
          /\ loc[w].keys = <<s_retinanet>>

\* C19: in Deepcell3DConsumer every inference request is for one tile of
\* the layout, no tile twice, carries the configured model name and
\* version and is sent while the persisted status is 'predicting'; once
\* 'post-processing' is written there have been exactly as many requests
\* as tiles, and the i-th entry of each collected head is the prediction
\* of tile i.
C19_PerTileInference ==
    kind = Deepcell3DConsumer =>
        \A w \in fleet :
            InFrame(w) =>
                LET P == CallsOf(w, "predict")
                    n == loc[w].tiles
                IN  /\ InferenceCalls(w) = P
                    /\ \A i \in P :
                           /\ calls[w][i].model = <<"deepcell3d", "1">>
                           /\ calls[w][i].status = "predicting"
                           /\ calls[w][i].tile \in 0..(n - 1)
                           /\ \A j \in P :
                                  calls[w][j].tile = calls[w][i].tile => j = i
                    /\ "post-processing" \in
                           {written[w][i] : i \in 1..Len(written[w])} =>
                           /\ Cardinality(P) = n
                           /\ loc[w].inner_d =
                                  [k \in 1..n |-> [tile |-> k - 1, head |-> 0]]
                           /\ loc[w].outer_d =
                                  [k \in 1..n |-> [tile |-> k - 1, head |-> 1]]

\* a run on a volume of two tiles has written 'post-processing' after two
\* inference requests
C19_Witness ==
    /\ kind = Deepcell3DConsumer
    /\ \E w \in fleet :
          /\ pc[w] = "saving-results"
          /\ loc[w].tiles = 2
          /\ Cardinality(CallsOf(w, "predict")) = 2

\* C20: in Deepcell3DConsumer untile_image_3D is called if and only if the
\* layout has more than one tile: then once for each of the two heads, on
\* that head's tiles, with the layout of the tiling and the model input
\* shape; with exactly one tile it is not called and the heads go to
\* post-processing as predicted.
C20_ConditionalReassembly ==
    kind = Deepcell3DConsumer =>
        \A w \in fleet :
            LET l == loc[w]
            IN  /\ l.untiled # <<>> =>
                       /\ l.tiles > 1
                       /\ Len(l.untiled) = 2
                       /\ l.untiled[1].head = 0 /\ l.untiled[2].head = 1
                       /\ l.untiled[1].tiles = l.inner_d
                       /\ l.untiled[2].tiles = l.outer_d
                       /\ \A h \in 1..2 :
                              /\ l.untiled[h].tiles_info = l.tiles_info
                              /\ l.untiled[h].model_input_shape
                                     = <<20, 64, 64>>
                /\ pc[w] \in {"saving-results", "upload", "done"} =>
                       IF l.tiles > 1 THEN l.untiled # <<>>
                       ELSE l.shape = <<20, 64, 64>>

\* one run has reassembled the two heads of a volume of two tiles
C20_Witness ==
    /\ kind = Deepcell3DConsumer
    /\ \E w \in fleet :
          /\ pc[w] = "upload"
          /\ loc[w].tiles = 2
          /\ Len(loc[w].untiled) = 2

\* the statuses this invocation of worker w has written
StatusesOf(w) == {written[w][i] : i \in 1..Len(written[w])}

\* C21: in every run of ImageFileConsumer each stage writes its elapsed
\* time before the next stage's status is written: download_time no later
\* than 'pre-processing', preprocess_time before 'predicting',
\* postprocess_time before 'saving-results', upload_time and total_time
\* with 'done'; after a successful run the five fields are present in the
\* record, also when the function lists are empty.
C21_StageTimes ==
    kind = ImageFileConsumer =>
        \A w \in fleet :
            /\ "pre-processing" \in StatusesOf(w) =>
                   WritesOf(w, "download_time") # {}
            /\ "predicting" \in StatusesOf(w) =>
                   WritesOf(w, "preprocess_time") # {}
            /\ "saving-results" \in StatusesOf(w) =>
                   WritesOf(w, "postprocess_time") # {}
            /\ "done" \in StatusesOf(w) =>
                   /\ WritesOf(w, "upload_time") # {}
                   /\ WritesOf(w, "total_time") # {}
                   /\ \A f \in {"download_time", "preprocess_time",
                                 "postprocess_time", "upload_time",
                                 "total_time"} : redis[f] # Absent

TimingFields ==
    {"download_time", "preprocess_time", "postprocess_time", "upload_time",
     "total_time", "total_jobs", "finished_at"}

\* C22: within one invocation of _consume each of download_time,
\* preprocess_time, postprocess_time, upload_time, total_time, total_jobs
\* and finished_at is written at most once, however many names the
\* function lists hold.
C22_TimesWrittenOnce ==
    \A w \in fleet : \A f \in TimingFields :
        Cardinality(WritesOf(w, f)) <= 1

DoneFields ==
    {"output_url", "output_file_name", "upload_time", "total_jobs",
     "total_time", "finished_at"}

\* C24: a record whose status is done holds output_url, output_file_name,
\* upload_time, total_jobs, total_time and finished_at in every reachable
\* state, whatever the other workers do, and a step that sets the status to
\* done is one update_key call that writes all of them with it.
C24_AtomicCompletion ==
    /\ [](redis.status = "done" =>
             \A f \in DoneFields : redis[f] # Absent)
    /\ [][redis'.status = "done" /\ redis.status # "done" =>
             \E w \in Workers :
                 /\ Len(updates'[w]) = Len(updates[w]) + 1
                 /\ DoneFields \cup {"status"}
                        \subseteq updates'[w][Len(updates'[w])]]_vars

\* one worker has completed the job while the other is inside the pipeline
C24_Witness ==
    /\ redis.status = "done"
    /\ hist.rec0.status # "done"
    /\ \E w \in Workers : InPipeline(w) /\ written[w] # <<>>

====
